---------------------------- MODULE Spec2Model ----------------------------
(***************************************************************************)
(* Model of audio_transcribe.py: the timestamp formatter (format_td,       *)
(* format_to_srt_ts) and the transcribe() pipeline that drains the         *)
(* engine's lazy segment sequence and writes the .txt and .srt artifacts.  *)
(*                                                                         *)
(* Text is a sequence of one-character strings.  A time in seconds is an   *)
(* integer number of ticks, Resolution ticks to the second, so that        *)
(* 59.9996 s is 599996 ticks; the product seconds*10**digits is taken      *)
(* exactly (the error of the floating-point product is not modelled) and   *)
(* round() is Python's round-half-to-even.                                 *)
(***************************************************************************)
EXTENDS Integers, Sequences, FiniteSets, TLC

VARIABLES
    \* arguments of transcribe()
    verbose, output_txt, output_srt,
    \* the inference engine: its state and the Segment objects it has yielded
    engine, yielded,
    \* the run of transcribe()
    pc, error, transcribed_segments, stdout, txt_file, srt_file,
    \* a second run on the same engine events and I/O outcomes, verbose flipped
    q_pc, q_error, q_transcribed_segments, q_stdout, q_txt_file, q_srt_file,
    \* one call of the formatter
    fmt_pc, fmt_seconds, fmt_separator, fmt_digits, fmt_error, fmt_result

argvars == <<verbose, output_txt, output_srt>>
envvars == <<engine, yielded>>
runvars == <<pc, error, transcribed_segments, stdout, txt_file, srt_file>>
qvars   == <<q_pc, q_error, q_transcribed_segments, q_stdout, q_txt_file, q_srt_file>>
fmtvars == <<fmt_pc, fmt_seconds, fmt_separator, fmt_digits, fmt_error, fmt_result>>
vars    == <<argvars, envvars, runvars, qvars, fmtvars>>

----------------------------------------------------------------------------
(* Bounds of the model *)

\* longest segment stream the engine yields
MaxSegs == 3
\* the formatter is called on every tick count in -MaxTicks .. MaxTicks
MaxTicks == 60
\* largest digits argument tried
MaxDigits == 3

\* ticks per second
Resolution == 10^4

----------------------------------------------------------------------------
(* Text helpers: what str(), %d, %02d and the format mini-language do *)

Digits == <<"0", "1", "2", "3", "4", "5", "6", "7", "8", "9">>

RECURSIVE NatStr(_)
NatStr(n) == IF n < 10 THEN <<Digits[n + 1]>>
             ELSE NatStr(n \div 10) \o <<Digits[(n % 10) + 1]>>

\* "%d" % n, str(n)
IntStr(n) == IF n < 0 THEN <<"-">> \o NatStr(-n) ELSE NatStr(n)

RECURSIVE Repeat(_, _)
Repeat(c, n) == IF n <= 0 THEN <<>> ELSE <<c>> \o Repeat(c, n - 1)

\* f'{s:0>w}': s right-aligned in a field of at least w, filled with "0"
ZeroFill(s, w) == Repeat("0", w - Len(s)) \o s

RECURSIVE Flatten(_)
Flatten(items) == IF items = <<>> THEN <<>>
                  ELSE Head(items) \o Flatten(Tail(items))

\* round(q + r/den) for an integer q and 0 <= r < den: to the nearest integer,
\* a tie to the even one
round(q, r, den) ==
    IF 2 * r < den THEN q
    ELSE IF 2 * r > den THEN q + 1
    ELSE IF q % 2 = 0 THEN q ELSE q + 1

\* str(timedelta(seconds=isec)): days are normalised out of the seconds
timedelta_str(isec) ==
    LET days == isec \div 86400
        secs == isec % 86400
        hh   == secs \div 3600
        mm   == (secs % 3600) \div 60
        ss   == secs % 60
        hms  == IntStr(hh) \o <<":">> \o ZeroFill(IntStr(mm), 2)
                           \o <<":">> \o ZeroFill(IntStr(ss), 2)
        plural == IF days = 1 \/ days = -1 THEN <<>> ELSE <<"s">>
    IN  IF days # 0
        THEN IntStr(days) \o <<" ", "d", "a", "y">> \o plural \o <<",", " ">> \o hms
        ELSE hms

\* seconds*10**digits, as an integer part and a remainder over Resolution
\* (the whole seconds are scaled apart from the fraction: TLC's integers are
\* 32 bits wide)
Scaled(seconds, digits) ==
    LET whole == seconds \div Resolution
        frac  == (seconds % Resolution) * 10^digits
    IN  [q |-> whole * 10^digits + frac \div Resolution, r |-> frac % Resolution]

\* format_td(seconds, separator, digits); seconds in ticks
format_td(seconds, separator, digits) ==
    LET x      == Scaled(seconds, digits)
        scaled == round(x.q, x.r, Resolution)
        isec   == scaled \div 10^digits
        fsec   == scaled % 10^digits
    IN  ZeroFill(timedelta_str(isec), 8) \o <<separator>>
            \o ZeroFill(IntStr(fsec), digits)

format_to_srt_ts(seconds) == format_td(seconds, ",", 3)

----------------------------------------------------------------------------
(* The formatter called on its own *)

\* inputs around the carry boundaries of a minute, an hour and a day
FmtSpecial == {4999, 5000, 15000, 32500, 599949, 599950, 599990, 599995,
               599996, 600000, 35999996, 36000000, 360000000, 863999996,
               864000000, 900005000, 1728000000, -15000}

FmtInputs == (-MaxTicks .. MaxTicks) \cup FmtSpecial

FmtIdle == /\ fmt_pc = "idle" /\ fmt_seconds = 0 /\ fmt_separator = "."
           /\ fmt_digits = 0 /\ fmt_error = "none" /\ fmt_result = <<>>

\* a call format_td(seconds, separator, digits); the function has no raise
CallFormatTd ==
    /\ fmt_pc = "idle"
    /\ \E s \in FmtInputs, sep \in {".", ","}, d \in 0 .. MaxDigits :
          /\ fmt_seconds' = s
          /\ fmt_separator' = sep
          /\ fmt_digits' = d
          /\ fmt_result' = format_td(s, sep, d)
    /\ fmt_error' = "none"
    /\ fmt_pc' = "format_td"
    /\ UNCHANGED <<argvars, envvars, runvars, qvars>>

\* a call format_to_srt_ts(seconds)
CallFormatToSrtTs ==
    /\ fmt_pc = "idle"
    /\ \E s \in FmtInputs :
          /\ fmt_seconds' = s
          /\ fmt_result' = format_to_srt_ts(s)
    /\ fmt_separator' = ","
    /\ fmt_digits' = 3
    /\ fmt_error' = "none"
    /\ fmt_pc' = "format_to_srt_ts"
    /\ UNCHANGED <<argvars, envvars, runvars, qvars>>

----------------------------------------------------------------------------
(* The engine's segments *)

\* Segment objects the engine may yield: an engine-side id, start and end in
\* ticks, the recognised text.  The third and fourth start together.
SegmentPool ==
    { [id |-> 40, start |-> 0, end |-> 15000,
       text |-> <<"H", "e", "l", "l", "o", ".">>],
      [id |-> 30, start |-> 15000, end |-> 32500,
       text |-> <<" ", "W", "o", "r", "l", "d", ".">>],
      [id |-> 20, start |-> 32500, end |-> 599996,
       text |-> <<" ", "\t", "a", " ", "b", " ", "\n">>],
      [id |-> 10, start |-> 32500, end |-> 864000000,
       text |-> <<" ">>] }

\* the engine yields in non-decreasing start order
MayYield(seg) ==
    /\ seg \in SegmentPool
    /\ Len(yielded) < MaxSegs
    /\ yielded # <<>> => yielded[Len(yielded)].start <= seg.start

----------------------------------------------------------------------------
(* The pieces of transcribe() *)

\* what str.strip() removes
Whitespace == {" ", "\t", "\n", "\r", "\f"}

RECURSIVE lstrip(_)
lstrip(s) == IF s # <<>> /\ Head(s) \in Whitespace THEN lstrip(Tail(s)) ELSE s

RECURSIVE rstrip(_)
rstrip(s) == IF s # <<>> /\ s[Len(s)] \in Whitespace
             THEN rstrip(SubSeq(s, 1, Len(s) - 1)) ELSE s

\* strip() that forgets the trailing end
strip_leading_only(s) == lstrip(s)

strip(s) == rstrip(lstrip(s))

\* f"{x:.2f}" of a non-negative time
fixed2(seconds) ==
    LET x      == Scaled(seconds, 2)
        scaled == round(x.q, x.r, Resolution)
    IN  IntStr(scaled \div 100) \o <<".">> \o ZeroFill(IntStr(scaled % 100), 2)

\* the line print() writes when the engine's metadata arrives; the language
\* and its probability are engine metadata
LanguageLine == <<"D", "e", "t", "e", "c", "t", "e", "d">>

\* f"[{segment.start:.2f}s -> {segment.end:.2f}s] {segment.text}"
ProgressLine(segment) ==
    <<"[">> \o fixed2(segment.start) \o <<"s", " ", "-", ">", " ">>
            \o fixed2(segment.end) \o <<"s", "]", " ">> \o segment.text

\* the loop body with the append indented under `if verbose`
LoopBodyIndented(v, out, ts, segment) ==
    [stdout |-> IF v THEN Append(out, ProgressLine(segment)) ELSE out,
     transcribed_segments |->
         IF v THEN Append(ts, <<segment.start, segment.end, segment.text>>) ELSE ts]

\* the loop body skipping a segment equal to the one before it
LoopBodyDedup(v, out, ts, segment) ==
    [stdout |-> IF v THEN Append(out, ProgressLine(segment)) ELSE out,
     transcribed_segments |->
         IF ts # <<>> /\ ts[Len(ts)] = <<segment.start, segment.end, segment.text>>
         THEN ts
         ELSE Append(ts, <<segment.start, segment.end, segment.text>>)]

\* the body of the collector loop; print() appends a line to stdout and is
\* taken not to raise
LoopBody(v, out, ts, segment) ==
    [stdout |-> IF v THEN Append(out, ProgressLine(segment)) ELSE out,
     transcribed_segments |->
         Append(ts, <<segment.start, segment.end, segment.text>>)]

\* the inner `if output_txt` dropped: the outer test alone guards the .txt block
AfterCollectAny(otxt, osrt) == IF otxt \/ osrt THEN "open_txt" ELSE "done"

\* after the loop: which block runs first
AfterCollect(otxt, osrt) ==
    IF otxt \/ osrt
    THEN IF otxt THEN "open_txt" ELSE IF osrt THEN "open_srt" ELSE "done"
    ELSE "done"

\* after the .txt block
AfterTxt(osrt) == IF osrt THEN "open_srt" ELSE "done"

\* the loop wrapped in a try/except that goes on to the writers
OnEngineRaiseSwallowed == AfterCollect(output_txt, output_srt)

\* where an exception raised by the engine's sequence leaves the run: nothing
\* in transcribe() catches it
OnEngineRaise == "failed"

\* s[2] for s in transcribed_segments
TxtLines(ts) == [i \in 1 .. Len(ts) |-> ts[i][3]]

\* enumerate() left at its default start of 0
enumerate_from_zero(ts) == [i \in 1 .. Len(ts) |-> <<i - 1, ts[i]>>]

\* enumerate(transcribed_segments, 1)
enumerate(ts) == [i \in 1 .. Len(ts) |-> <<i, ts[i]>>]

\* one SRT group
Group(counter, s) ==
    IntStr(counter) \o <<"\n">>
        \o format_to_srt_ts(s[1]) \o <<" ", "-", "-", ">", " ">>
        \o format_to_srt_ts(s[2]) \o <<"\n">>
        \o strip(s[3]) \o <<"\n", "\n">>

SrtGroups(ts) ==
    LET e == enumerate(ts)
    IN  [i \in 1 .. Len(e) |-> Group(e[i][1], e[i][2])]

----------------------------------------------------------------------------
(* Files *)

Absent == [exists |-> FALSE, content |-> <<>>, open |-> "never"]
Old    == [exists |-> TRUE, content |-> <<"o", "l", "d">>, open |-> "never"]

\* open(path, 'w'): creates or truncates, or fails and leaves the path alone
OpenW(f, ok) ==
    IF ok THEN [exists |-> TRUE, content |-> <<>>, open |-> "opened"]
    ELSE [f EXCEPT !.open = "refused"]

\* writelines(items): the k-th write fails (k in 1 .. Len(items)) and the items
\* before it have reached the file, or every item is written
WriteFails(items, k) == k \in 1 .. Len(items)

Writelines(f, items, k) ==
    IF WriteFails(items, k)
    THEN [f EXCEPT !.content = f.content \o Flatten(SubSeq(items, 1, k - 1))]
    ELSE [f EXCEPT !.content = f.content \o Flatten(items)]

----------------------------------------------------------------------------
(* transcribe(): the steps of one run, each on the event the environment
   decides (the engine's next move, the outcome of an open or a write) *)

\* WhisperModel(...) and model.transcribe(...), then the language line
StartRun(ok) ==
    /\ pc = "start"
    /\ engine' = IF ok THEN "streaming" ELSE "failed"
    /\ pc' = IF ok THEN "collect" ELSE "failed"
    /\ error' = IF ok THEN error ELSE "EngineFailure"
    /\ stdout' = IF ok /\ verbose THEN Append(stdout, LanguageLine) ELSE stdout
    /\ UNCHANGED <<argvars, yielded, transcribed_segments, txt_file, srt_file>>

\* the engine yields a segment: one pass of the for loop
IterateRun(seg) ==
    /\ pc = "collect"
    /\ MayYield(seg)
    /\ yielded' = Append(yielded, seg)
    /\ LET b == LoopBody(verbose, stdout, transcribed_segments, seg)
       IN  /\ stdout' = b.stdout
           /\ transcribed_segments' = b.transcribed_segments
    /\ UNCHANGED <<argvars, engine, pc, error, txt_file, srt_file>>

\* the engine's sequence raises in place of yielding
RaiseRun ==
    /\ pc = "collect"
    /\ engine' = "failed"
    /\ pc' = OnEngineRaise
    /\ error' = "EngineFailure"
    /\ UNCHANGED <<argvars, yielded, transcribed_segments, stdout, txt_file, srt_file>>

\* the engine's sequence ends: the loop is left
ExhaustRun ==
    /\ pc = "collect"
    /\ engine' = "exhausted"
    /\ pc' = AfterCollect(output_txt, output_srt)
    /\ UNCHANGED <<argvars, yielded, error, transcribed_segments, stdout,
                   txt_file, srt_file>>

\* open(f'{filename}.txt', 'w', encoding='utf-8')
OpenTxtRun(ok) ==
    /\ pc = "open_txt"
    /\ txt_file' = OpenW(txt_file, ok)
    /\ pc' = IF ok THEN "write_txt" ELSE "failed"
    /\ error' = IF ok THEN error ELSE "IOFailure"
    /\ UNCHANGED <<argvars, envvars, transcribed_segments, stdout, srt_file>>

\* txt_writer.writelines(...) and the end of the with block
WriteTxtRun(k) ==
    /\ pc = "write_txt"
    /\ LET items == TxtLines(transcribed_segments)
       IN  /\ txt_file' = Writelines(txt_file, items, k)
           /\ pc' = IF WriteFails(items, k) THEN "failed" ELSE AfterTxt(output_srt)
           /\ error' = IF WriteFails(items, k) THEN "IOFailure" ELSE error
    /\ UNCHANGED <<argvars, envvars, transcribed_segments, stdout, srt_file>>

\* open(f'{filename}.srt', 'w', encoding='utf-8')
OpenSrtRun(ok) ==
    /\ pc = "open_srt"
    /\ srt_file' = OpenW(srt_file, ok)
    /\ pc' = IF ok THEN "write_srt" ELSE "failed"
    /\ error' = IF ok THEN error ELSE "IOFailure"
    /\ UNCHANGED <<argvars, envvars, transcribed_segments, stdout, txt_file>>

\* groups = [...]; srt_writer.writelines(groups) and the end of the with block
WriteSrtRun(k) ==
    /\ pc = "write_srt"
    /\ LET groups == SrtGroups(transcribed_segments)
       IN  /\ srt_file' = Writelines(srt_file, groups, k)
           /\ pc' = IF WriteFails(groups, k) THEN "failed" ELSE "done"
           /\ error' = IF WriteFails(groups, k) THEN "IOFailure" ELSE error
    /\ UNCHANGED <<argvars, envvars, transcribed_segments, stdout, txt_file>>

\* the outcomes of a writelines: 0 for success, k for a failure of the k-th write
WriteOutcomes == 0 .. MaxSegs

Off == /\ pc = "off" /\ error = "none" /\ transcribed_segments = <<>>
       /\ stdout = <<>> /\ txt_file = Absent /\ srt_file = Absent
       /\ engine = "unloaded" /\ yielded = <<>>
       /\ verbose = FALSE /\ output_txt = FALSE /\ output_srt = FALSE

QOff == /\ q_pc = "off" /\ q_error = "none" /\ q_transcribed_segments = <<>>
        /\ q_stdout = <<>> /\ q_txt_file = Absent /\ q_srt_file = Absent

\* main(): any flags; each destination exists already or does not
RunInit ==
    /\ verbose \in BOOLEAN /\ output_txt \in BOOLEAN /\ output_srt \in BOOLEAN
    /\ engine = "unloaded" /\ yielded = <<>>
    /\ pc = "start" /\ error = "none"
    /\ transcribed_segments = <<>> /\ stdout = <<>>
    /\ txt_file \in {Absent, Old} /\ srt_file \in {Absent, Old}

Init == RunInit /\ QOff /\ FmtIdle

Start == (\E ok \in BOOLEAN : StartRun(ok)) /\ UNCHANGED <<qvars, fmtvars>>

Iterate == (\E seg \in SegmentPool : IterateRun(seg)) /\ UNCHANGED <<qvars, fmtvars>>

EngineRaise == RaiseRun /\ UNCHANGED <<qvars, fmtvars>>

EngineExhausted == ExhaustRun /\ UNCHANGED <<qvars, fmtvars>>

OpenTxt == (\E ok \in BOOLEAN : OpenTxtRun(ok)) /\ UNCHANGED <<qvars, fmtvars>>

WriteTxt == (\E k \in WriteOutcomes : WriteTxtRun(k)) /\ UNCHANGED <<qvars, fmtvars>>

OpenSrt == (\E ok \in BOOLEAN : OpenSrtRun(ok)) /\ UNCHANGED <<qvars, fmtvars>>

WriteSrt == (\E k \in WriteOutcomes : WriteSrtRun(k)) /\ UNCHANGED <<qvars, fmtvars>>

Next == \/ Start \/ Iterate \/ EngineRaise \/ EngineExhausted
        \/ OpenTxt \/ WriteTxt \/ OpenSrt \/ WriteSrt

Spec == Init /\ [][Next]_vars

----------------------------------------------------------------------------
(* The formatter's specification *)

InitFmt == Off /\ QOff /\ FmtIdle

NextFmt == CallFormatTd \/ CallFormatToSrtTs

SpecFmt == InitFmt /\ [][NextFmt]_vars

----------------------------------------------------------------------------
(* Two runs side by side: the second takes the same flags, the same engine
   events and the same I/O outcomes, with verbose flipped *)

QStartRun(ok) ==
    /\ q_pc = "start"
    /\ q_pc' = IF ok THEN "collect" ELSE "failed"
    /\ q_error' = IF ok THEN q_error ELSE "EngineFailure"
    /\ q_stdout' = IF ok /\ ~verbose THEN Append(q_stdout, LanguageLine) ELSE q_stdout
    /\ UNCHANGED <<q_transcribed_segments, q_txt_file, q_srt_file>>

QIterateRun(seg) ==
    /\ q_pc = "collect"
    /\ LET b == LoopBody(~verbose, q_stdout, q_transcribed_segments, seg)
       IN  /\ q_stdout' = b.stdout
           /\ q_transcribed_segments' = b.transcribed_segments
    /\ UNCHANGED <<q_pc, q_error, q_txt_file, q_srt_file>>

QRaiseRun ==
    /\ q_pc = "collect"
    /\ q_pc' = OnEngineRaise
    /\ q_error' = "EngineFailure"
    /\ UNCHANGED <<q_transcribed_segments, q_stdout, q_txt_file, q_srt_file>>

QExhaustRun ==
    /\ q_pc = "collect"
    /\ q_pc' = AfterCollect(output_txt, output_srt)
    /\ UNCHANGED <<q_error, q_transcribed_segments, q_stdout, q_txt_file, q_srt_file>>

QOpenTxtRun(ok) ==
    /\ q_pc = "open_txt"
    /\ q_txt_file' = OpenW(q_txt_file, ok)
    /\ q_pc' = IF ok THEN "write_txt" ELSE "failed"
    /\ q_error' = IF ok THEN q_error ELSE "IOFailure"
    /\ UNCHANGED <<q_transcribed_segments, q_stdout, q_srt_file>>

QWriteTxtRun(k) ==
    /\ q_pc = "write_txt"
    /\ LET items == TxtLines(q_transcribed_segments)
       IN  /\ q_txt_file' = Writelines(q_txt_file, items, k)
           /\ q_pc' = IF WriteFails(items, k) THEN "failed" ELSE AfterTxt(output_srt)
           /\ q_error' = IF WriteFails(items, k) THEN "IOFailure" ELSE q_error
    /\ UNCHANGED <<q_transcribed_segments, q_stdout, q_srt_file>>

QOpenSrtRun(ok) ==
    /\ q_pc = "open_srt"
    /\ q_srt_file' = OpenW(q_srt_file, ok)
    /\ q_pc' = IF ok THEN "write_srt" ELSE "failed"
    /\ q_error' = IF ok THEN q_error ELSE "IOFailure"
    /\ UNCHANGED <<q_transcribed_segments, q_stdout, q_txt_file>>

QWriteSrtRun(k) ==
    /\ q_pc = "write_srt"
    /\ LET groups == SrtGroups(q_transcribed_segments)
       IN  /\ q_srt_file' = Writelines(q_srt_file, groups, k)
           /\ q_pc' = IF WriteFails(groups, k) THEN "failed" ELSE "done"
           /\ q_error' = IF WriteFails(groups, k) THEN "IOFailure" ELSE q_error
    /\ UNCHANGED <<q_transcribed_segments, q_stdout, q_txt_file>>

\* both runs start on the same file system
InitTwin ==
    /\ RunInit /\ FmtIdle
    /\ q_pc = "start" /\ q_error = "none"
    /\ q_transcribed_segments = <<>> /\ q_stdout = <<>>
    /\ q_txt_file = txt_file /\ q_srt_file = srt_file

TwinStart == (\E ok \in BOOLEAN : StartRun(ok) /\ QStartRun(ok)) /\ UNCHANGED fmtvars

TwinIterate ==
    (\E seg \in SegmentPool : IterateRun(seg) /\ QIterateRun(seg)) /\ UNCHANGED fmtvars

TwinEngineRaise == RaiseRun /\ QRaiseRun /\ UNCHANGED fmtvars

TwinEngineExhausted == ExhaustRun /\ QExhaustRun /\ UNCHANGED fmtvars

TwinOpenTxt ==
    (\E ok \in BOOLEAN : OpenTxtRun(ok) /\ QOpenTxtRun(ok)) /\ UNCHANGED fmtvars

TwinWriteTxt ==
    (\E k \in WriteOutcomes : WriteTxtRun(k) /\ QWriteTxtRun(k)) /\ UNCHANGED fmtvars

TwinOpenSrt ==
    (\E ok \in BOOLEAN : OpenSrtRun(ok) /\ QOpenSrtRun(ok)) /\ UNCHANGED fmtvars

TwinWriteSrt ==
    (\E k \in WriteOutcomes : WriteSrtRun(k) /\ QWriteSrtRun(k)) /\ UNCHANGED fmtvars

NextTwin == \/ TwinStart \/ TwinIterate \/ TwinEngineRaise \/ TwinEngineExhausted
            \/ TwinOpenTxt \/ TwinWriteTxt \/ TwinOpenSrt \/ TwinWriteSrt

SpecTwin == InitTwin /\ [][NextTwin]_vars

----------------------------------------------------------------------------
(* Properties of the run *)

Untouched(f) == f.open = "never" /\ f \in {Absent, Old}

\* the (start, end, text) triple of an engine Segment
Triple(seg) == <<seg.start, seg.end, seg.text>>

\* C1: all-or-nothing over a decoding pass.  When the engine fails, after any
\* number of segments, the run has failed with that error and neither
\* destination has been opened, created, truncated or written; a destination
\* is opened only once the engine's sequence has been drained to its end.
C1_AllOrNothing ==
    /\ error = "EngineFailure" =>
          pc = "failed" /\ Untouched(txt_file) /\ Untouched(srt_file)
    /\ engine # "exhausted" => Untouched(txt_file) /\ Untouched(srt_file)

C1_Witness ==
    /\ pc = "failed" /\ error = "EngineFailure"
    /\ Len(yielded) = 3 /\ output_txt /\ output_srt

\* C7: the collector keeps arrival order.  After the engine has yielded k
\* segments, transcribed_segments is exactly their k (start, end, text)
\* triples in arrival order: none reordered, dropped, repeated or altered.
C7_ArrivalOrder ==
    /\ Len(transcribed_segments) = Len(yielded)
    /\ \A i \in 1 .. Len(yielded) : transcribed_segments[i] = Triple(yielded[i])

C7_Witness ==
    /\ pc = "collect" /\ Len(yielded) = 3
    /\ yielded[1] = yielded[2] /\ yielded[2] # yielded[3]

\* the SRT document the ordinal law describes: block i carries ordinal i and
\* the start, end and text of the i-th segment
ExpectedBlock(i, seg) ==
    IntStr(i) \o <<"\n">>
        \o format_to_srt_ts(seg.start) \o <<" ", "-", "-", ">", " ">>
        \o format_to_srt_ts(seg.end) \o <<"\n">>
        \o strip(seg.text) \o <<"\n", "\n">>

RECURSIVE ExpectedSrt(_, _)
ExpectedSrt(segs, ordinal) ==
    IF segs = <<>> THEN <<>>
    ELSE ExpectedBlock(ordinal, Head(segs)) \o ExpectedSrt(Tail(segs), ordinal + 1)

\* C4: SRT ordinal law.  The SRT document written for N collected segments
\* is exactly N blocks, the i-th carrying ordinal i and the i-th segment's
\* start, end and text, whatever identifiers the engine gave the segments.
C4_SrtOrdinalLaw ==
    (pc = "done" /\ output_srt) =>
        /\ srt_file.exists
        /\ srt_file.content = ExpectedSrt(yielded, 1)

C4_Witness ==
    /\ pc = "done" /\ output_srt /\ Len(yielded) = 3
    /\ \A i \in 1 .. 3 : yielded[i].id # i

\* t is s without its leading and trailing whitespace
IsTrimOf(t, s) ==
    \E i, j \in 0 .. Len(s) :
        /\ i + j <= Len(s)
        /\ t = SubSeq(s, i + 1, Len(s) - j)
        /\ \A k \in 1 .. i : s[k] \in Whitespace
        /\ \A k \in (Len(s) - j + 1) .. Len(s) : s[k] \in Whitespace
        /\ t # <<>> => t[1] \notin Whitespace /\ t[Len(t)] \notin Whitespace

Trimmed(s) ==
    CHOOSE t \in {SubSeq(s, a, b) : a \in 1 .. Len(s) + 1, b \in 0 .. Len(s)} :
        IsTrimOf(t, s)

RECURSIVE TrimmedSrt(_, _)
TrimmedSrt(segs, ordinal) ==
    IF segs = <<>> THEN <<>>
    ELSE IntStr(ordinal) \o <<"\n">>
            \o format_to_srt_ts(Head(segs).start) \o <<" ", "-", "-", ">", " ">>
            \o format_to_srt_ts(Head(segs).end) \o <<"\n">>
            \o Trimmed(Head(segs).text) \o <<"\n", "\n">>
            \o TrimmedSrt(Tail(segs), ordinal + 1)

RECURSIVE Verbatim(_)
Verbatim(segs) == IF segs = <<>> THEN <<>> ELSE Head(segs).text \o Verbatim(Tail(segs))

HelloWorld ==
    /\ Len(yielded) = 2
    /\ yielded[1].text = <<"H", "e", "l", "l", "o", ".">>
    /\ yielded[2].text = <<" ", "W", "o", "r", "l", "d", ".">>

\* C8: text handling per artifact.  The .txt content is every segment's text
\* in order, verbatim, nothing inserted; each SRT block's text line is the
\* segment's text without its leading and trailing whitespace.  "Hello." then
\* " World." give the plain text "Hello. World.".
C8_TextHandling ==
    /\ (pc = "done" /\ output_txt) => txt_file.content = Verbatim(yielded)
    /\ (pc = "done" /\ output_srt) => srt_file.content = TrimmedSrt(yielded, 1)
    /\ (pc = "done" /\ output_txt /\ HelloWorld) =>
          txt_file.content = <<"H", "e", "l", "l", "o", ".", " ",
                               "W", "o", "r", "l", "d", ".">>

C8_Witness ==
    /\ pc = "done" /\ output_txt /\ output_srt /\ Len(yielded) = 3
    /\ \E i \in 1 .. 3 : Trimmed(yielded[i].text) # yielded[i].text
    /\ srt_file.content # <<>> /\ txt_file.content # <<>>

\* C9: output selection frame.  No step of a run changes the .txt destination
\* unless --txt was given, nor the .srt destination unless --srt was given.
C9_OutputSelection ==
    [][/\ ~output_txt => txt_file' = txt_file
       /\ ~output_srt => srt_file' = srt_file]_vars

C9_Witness ==
    /\ pc = "done" /\ ~output_txt /\ output_srt
    /\ srt_file.open = "opened" /\ txt_file = Old /\ Len(yielded) = 2

\* with both artifacts requested: the other artifact's write is attempted
IndependentPolicy == txt_file.open # "never" /\ srt_file.open # "never"

\* with both artifacts requested: both files are written whole, or neither
\* has been touched
AtomicPolicy ==
    \/ txt_file.open # "opened" /\ srt_file.open # "opened"
    \/ /\ txt_file.content = Verbatim(yielded)
       /\ srt_file.content = ExpectedSrt(yielded, 1)
       /\ txt_file.open = "opened" /\ srt_file.open = "opened"

\* C5: two-artifact write policy.  When both artifacts are requested and a
\* write fails, either the other artifact's write has still been attempted
\* or the two files are as one unit: both written or neither.
C5_TwoArtifactPolicy ==
    (pc = "failed" /\ error = "IOFailure" /\ output_txt /\ output_srt) =>
        IndependentPolicy \/ AtomicPolicy

----------------------------------------------------------------------------
(* Properties of the formatter *)

IsDigits(s) == \A i \in 1 .. Len(s) : \E d \in 1 .. 10 : s[i] = Digits[d]

DigitVal(c) == (CHOOSE d \in 1 .. 10 : Digits[d] = c) - 1

RECURSIVE ParseNat(_)
ParseNat(s) == IF s = <<>> THEN 0
               ELSE 10 * ParseNat(SubSeq(s, 1, Len(s) - 1)) + DigitVal(s[Len(s)])

\* s has the shape HH:MM:SS
IsClock(s) ==
    /\ Len(s) = 8 /\ s[3] = ":" /\ s[6] = ":"
    /\ IsDigits(SubSeq(s, 1, 2)) /\ IsDigits(SubSeq(s, 4, 5)) /\ IsDigits(SubSeq(s, 7, 8))
    /\ ParseNat(SubSeq(s, 4, 5)) < 60 /\ ParseNat(SubSeq(s, 7, 8)) < 60

ClockSeconds(s) ==
    (ParseNat(SubSeq(s, 1, 2)) * 60 + ParseNat(SubSeq(s, 4, 5))) * 60
        + ParseNat(SubSeq(s, 7, 8))

\* v is seconds*10**digits rounded to a nearest integer
IsRounded(v, seconds, digits) ==
    LET x == Scaled(seconds, digits)
    IN  \/ v = x.q /\ 2 * x.r <= Resolution
        \/ v = x.q + 1 /\ 2 * x.r >= Resolution

\* the call used one of the two presets
IsPreset ==
    \/ fmt_pc = "format_to_srt_ts"
    \/ fmt_pc = "format_td" /\ fmt_separator = "." /\ fmt_digits = 2

\* C2: for all seconds >= 0, a day or more included, the plain and the SRT
\* preset return HH:MM:SS<sep>F..F: fixed width, zero-padded, no day
\* component, and the value parsed back is seconds rounded to the preset's
\* digits.
C2_FixedWidthRoundTrip ==
    (IsPreset /\ fmt_seconds >= 0) =>
        LET d == fmt_digits
            r == fmt_result
        IN  /\ Len(r) = 9 + d
            /\ IsClock(SubSeq(r, 1, 8))
            /\ r[9] = fmt_separator
            /\ IsDigits(SubSeq(r, 10, 9 + d))
            /\ IsRounded(ClockSeconds(SubSeq(r, 1, 8)) * 10^d
                             + ParseNat(SubSeq(r, 10, 9 + d)), fmt_seconds, d)

\* where the fractional field starts: after the last separator
LastSep(r, sep) ==
    CHOOSE i \in 0 .. Len(r) :
        /\ i > 0 => r[i] = sep
        /\ \A j \in (i + 1) .. Len(r) : r[j] # sep

\* C3: rounding carry.  For every seconds >= 0 and digits >= 0 the fractional
\* field has exactly `digits` digits and a value in 0 .. 10^digits - 1, and a
\* round-up at the digit boundary carries into the whole seconds (the whole
\* part is read where it is a clock HH:MM:SS); format_to_srt_ts(59.9996) is
\* "00:01:00,000" and format_td(59.999) is "00:01:00.00".
C3_RoundingCarry ==
    (fmt_pc # "idle" /\ fmt_seconds >= 0) =>
        LET d     == fmt_digits
            r     == fmt_result
            at    == LastSep(r, fmt_separator)
            whole == SubSeq(r, 1, at - 1)
            field == SubSeq(r, at + 1, Len(r))
        IN  /\ at > 0
            /\ Len(field) = d
            /\ IsDigits(field)
            /\ ParseNat(field) < 10^d
            /\ IsClock(whole) =>
                  IsRounded(ClockSeconds(whole) * 10^d + ParseNat(field), fmt_seconds, d)
            /\ (fmt_pc = "format_to_srt_ts" /\ fmt_seconds = 599996) =>
                  r = <<"0", "0", ":", "0", "1", ":", "0", "0", ",", "0", "0", "0">>
            /\ (fmt_pc = "format_td" /\ fmt_seconds = 599990
                    /\ fmt_separator = "." /\ fmt_digits = 2) =>
                  r = <<"0", "0", ":", "0", "1", ":", "0", "0", ".", "0", "0">>

\* C6: a negative seconds value is rejected with an InvalidArgument error and
\* no timestamp string is returned.
C6_NegativeRejected ==
    (fmt_pc # "idle" /\ fmt_seconds < 0) =>
        fmt_error = "InvalidArgument" /\ fmt_result = <<>>

============================================================================
